---- MODULE Spec2Model ----
(***************************************************************************)
(* Sora Lite image-compression service.                                    *)
(*                                                                         *)
(* The model covers the upload pipeline of server.js (listed in README.md):*)
(* multer intake, the aggregate-size check, processFiles / optimiseFile of *)
(* utils/processor.js under p-limit, createZip, the failure handler, and   *)
(* the two read routes GET /download/:filename and GET /upload/:filename.  *)
(*                                                                         *)
(* Strings are sequences of one-character strings, so that path.extname,   *)
(* path.basename, path.join and String.startsWith are computed character   *)
(* by character as Node computes them.                                     *)
(*                                                                         *)
(* Environment assumption: in the upload pipeline and the read routes the  *)
(* disk is fault free: fs.readFile, writeFile, unlink, open and access     *)
(* fail only because of the state of a directory (ENOENT on a missing      *)
(* file).  The codec (imagemin.buffer) and archiver may fail on any call.  *)
(* In the cleanup job fs.readdir, fs.stat and fs.unlink may fail on any    *)
(* call.  multer, p-limit, Promise.all, node-cron and path are modelled by *)
(* their documented behaviour.                                             *)
(*                                                                         *)
(* Specifications:                                                         *)
(*   Spec        one upload request through POST /upload;                  *)
(*   SpecPF      processFiles called with a given limit on staged files;   *)
(*   SpecPFFair  SpecPF where a step that is possible is eventually taken; *)
(*   SpecRead    the read routes on any content of the two directories;    *)
(*   SpecJanitor one run of the cleanup job over both directories, while   *)
(*               other requests write and remove files;                    *)
(*   SpecTwo     two upload requests inside processFiles at the same time; *)
(*   SpecShared  one upload request and one run of the cleanup job on the  *)
(*               same two directories, while time passes.                  *)
(***************************************************************************)
EXTENDS Integers, Sequences, FiniteSets, TLC

\* ------------------------------------------------------------------ bounds
MaxBatch == 3         \* parts of a multipart batch that is within the count limit
MaxConc == 2          \* explicit options.concurrency values tried on processFiles
MaxPF == 5            \* files handed to a direct processFiles call

\* ------------------------------------------------------- program constants
MAX_FILES == 20
MAX_TOTAL_SIZE == 104857600
DefaultConcurrency == 6
HandlerConcurrency == 6

\* ------------------------------------------------------------------ strings
Str0 == << >>

\* the element of a one-element set.  Only({e(x) : x \in {v}}) is e(v): the
\* operators below are written so where a value is used several times, which
\* has it computed once
Only(S) == CHOOSE x \in S : TRUE

ToLowerChar(c) ==
  CASE c = "P" -> "p"
    [] c = "N" -> "n"
    [] c = "G" -> "g"
    [] c = "J" -> "j"
    [] c = "A" -> "a"
    [] OTHER -> c

toLowerCase(s) == Only({[i \in 1..Len(t) |-> ToLowerChar(t[i])] : t \in {s}})

LastIndexOf(s, c) ==
  Only({IF I = {} THEN 0 ELSE CHOOSE i \in I : \A j \in I : j <= i :
        I \in {{i \in 1..Len(t) : t[i] = c} : t \in {s}}})

startsWith(s, p) == Len(p) <= Len(s) /\ SubSeq(s, 1, Len(p)) = p

endsWith(s, p) ==
  \E t \in {s}, q \in {p} :
    Len(q) <= Len(t) /\ SubSeq(t, Len(t) - Len(q) + 1, Len(t)) = q

RECURSIVE StripTrailingSlashes(_)
StripTrailingSlashes(p) ==
  IF Len(p) > 0 /\ p[Len(p)] = "/"
  THEN StripTrailingSlashes(SubSeq(p, 1, Len(p) - 1))
  ELSE p

\* path.basename(p): the last segment, trailing separators ignored
basename1(p) ==
  Only({SubSeq(q, LastIndexOf(q, "/") + 1, Len(q)) : q \in {StripTrailingSlashes(p)}})

\* path.basename(p, ext): the last segment with the suffix ext removed, when
\* the segment ends with it (case-sensitively) and is not the suffix itself
basename(p, ext) ==
  Only({IF Len(e) = 0 \/ Len(e) > Len(q) THEN b
        ELSE IF e = q THEN Str0
        ELSE IF endsWith(b, e) /\ b # e
             THEN SubSeq(b, 1, Len(b) - Len(e))
             ELSE b :
        q \in {p}, e \in {ext}, b \in {basename1(p)}})

\* path.extname(p): from the last "." of the last segment to its end; empty
\* when there is no ".", when the only "." leads the segment, or for ".."
extname(p) ==
  Only({Only({IF d <= 1 \/ b = <<".", ".">> THEN Str0 ELSE SubSeq(b, d, Len(b)) :
              d \in {LastIndexOf(b, ".")}}) :
        b \in {basename1(p)}})

\* String.replace(/\s+/g, '_'): every run of white space becomes one "_"
RECURSIVE replaceSpaces(_)
replaceSpaces(s) ==
  IF Len(s) = 0 THEN Str0
  ELSE IF s[1] = " "
       THEN IF Len(s) > 1 /\ s[2] = " "
            THEN replaceSpaces(Tail(s))
            ELSE <<"_">> \o replaceSpaces(Tail(s))
       ELSE <<s[1]>> \o replaceSpaces(Tail(s))

\* split a path at "/" into its segments: the k-th segment lies between the
\* k-th and the (k+1)-th of the cuts (the ends of the path and its "/")
Segments(p) ==
  Only({[k \in 1..(Cardinality(cuts) - 1) |->
          Only({SubSeq(q, a + 1, b - 1) :
                a \in {c \in cuts : Cardinality({d \in cuts : d < c}) = k - 1},
                b \in {c \in cuts : Cardinality({d \in cuts : d < c}) = k}})] :
        q \in {p},
        cuts \in {{0, Len(p) + 1} \cup {i \in 1..Len(p) : p[i] = "/"}}})

\* path.normalize on the segments of an absolute path
RECURSIVE Normalize(_, _)
Normalize(segs, acc) ==
  IF Len(segs) = 0 THEN acc
  ELSE LET s == Head(segs)
       IN  IF s = Str0 \/ s = <<".">> THEN Normalize(Tail(segs), acc)
           ELSE IF s = <<".", ".">>
                THEN Normalize(Tail(segs),
                               IF Len(acc) = 0 THEN acc
                               ELSE SubSeq(acc, 1, Len(acc) - 1))
                ELSE Normalize(Tail(segs), Append(acc, s))

RECURSIVE Render(_)
Render(segs) ==
  IF Len(segs) = 0 THEN Str0 ELSE <<"/">> \o Head(segs) \o Render(Tail(segs))

\* path.join(dir, name) for an absolute dir: concatenate, then normalize
join(dir, name) ==
  Only({IF Len(n) = 0 THEN <<"/">> ELSE Render(n) :
        n \in {Normalize(segs, << >>) :
                 segs \in {Segments(p) : p \in {dir \o <<"/">> \o name}}}})

\* path.dirname of an absolute, normalized path
dirname(p) ==
  LET k == LastIndexOf(p, "/")
  IN  IF k <= 1 THEN <<"/">> ELSE SubSeq(p, 1, k - 1)

\* ------------------------------------------------------------- directories
DirName == <<"/", "s">>
UPLOAD_DIR == join(DirName, <<"u">>)
OPTIMIZED_DIR == join(DirName, <<"o">>)


\* ------------------------------------------------------------------ inputs
N_a_png == <<"a", ".", "p", "n", "g">>
N_a_PNG == <<"a", ".", "P", "N", "G">>
N_b_jpg == <<"b", ".", "j", "p", "g">>
N_a_gif == <<"a", ".", "g", "i", "f">>
N_png == <<".", "p", "n", "g">>

SmallSize == 10
OtherSize == 12
HalfSize == (MAX_TOTAL_SIZE \div 2) + 1
OverSize == MAX_TOTAL_SIZE + 1

\* the parts a client sends: a client-supplied file name and the bytes sent
PartSet ==
  { [originalname |-> N_a_png, size |-> SmallSize],
    [originalname |-> N_a_png, size |-> OtherSize],
    [originalname |-> N_a_PNG, size |-> OtherSize],
    [originalname |-> N_b_jpg, size |-> HalfSize],
    [originalname |-> N_a_gif, size |-> SmallSize],
    [originalname |-> N_png, size |-> OtherSize],
    [originalname |-> N_b_jpg, size |-> OverSize] }

\* the batches a client sends: any batch of at most MaxBatch parts, and the
\* batches of MAX_FILES + 1 equal parts (one part too many)
Batches ==
  UNION {[1..n -> PartSet] : n \in 0..MaxBatch}
  \cup {[i \in 1..(MAX_FILES + 1) |-> p] : p \in {q \in PartSet : q.size = SmallSize}}

\* the upload requests (and processFiles calls); Spec runs the first alone
Reqs == {1, 2}
Single == {1}

\* decimal numerals, used as the unique component of stored names
Numeral ==
  <<"1", "2", "3", "4", "5", "6", "7", "8", "9", "10", "11", "12", "13", "14",
    "15", "16", "17", "18", "19", "20", "21", "22", "23", "24", "25">>

\* ------------------------------------------------------------------- state
VARIABLES
  mode,         \* which entry point drives the run: "server", "direct", "read"
  pc,           \* per upload request: the await the request is suspended at
  batch,        \* per request: the multipart parts the client sends
  nextPart,     \* per request: index of the next part multer will see
  files,        \* per request: req.files, the accepted and staged files
  concurrency,  \* per processFiles call: the limit given to pLimit
  activeCount,  \* per processFiles call: p-limit's activeCount
  queue,        \* per processFiles call: p-limit's queue (unit indices)
  ustate,       \* per processFiles call: per unit, the await optimiseFile is at
  values,       \* per processFiles call: Promise.all's value slots
  finished,     \* per processFiles call: the units in the order they ended
  processed,    \* per request: the array processFiles resolved with
  response,     \* per request: the HTTP response sent
  everRan,      \* per request: whether optimiseFile was ever called for it
  uploadErr,    \* per request: the message of the error multer reported
  incoming,     \* the uploads directory: a set of files [name, len, mtimeMs]
  outgoing,     \* the optimized directory: files [name, src, len, entries, mtimeMs]
  get,          \* the last read request: route, name, path accessed, status
  clock,        \* Date.now(), in milliseconds
  now,          \* the cleanup job: `now` of the sweep that runs or ran last
  cleanPc,      \* per folder: the await cleanFolder is suspended at
  dirents,      \* per folder: the entries of fs.readdir the loop has not
                \* left yet; the loop is at the first of them
  logged,       \* per folder: the warnings of the sweep
  atStart       \* per folder: the files at rest it held when the sweep started

vars == <<mode, pc, batch, nextPart, files, concurrency, activeCount, queue,
          ustate, values, finished, processed, response, everRan, uploadErr, incoming,
          outgoing, get, clock, now, cleanPc, dirents, logged, atStart>>

janVars == <<clock, now, cleanPc, dirents, logged, atStart>>

reqVars == <<pc, batch, nextPart, files, concurrency, activeCount, queue,
             ustate, values, finished, processed, response, everRan, uploadErr>>

\* ------------------------------------------------------------- file system
FileNames(dir) == {f.name : f \in dir}

exists(dir, name) == name \in FileNames(dir)

\* fs.writeFile: create the file or replace its content
writeFile(dir, f) == UNION {{g \in dir : g.name # h.name} \cup {h} : h \in {f}}

\* fs.unlink of each name; a missing file raises ENOENT
unlink(dir, names) == {g \in dir : g.name \notin names}

\* variant of safeUnlink: nothing is deleted
safeUnlinkNothing(dir, names) == dir

\* safeUnlink(filePath): unlink, ENOENT ignored, any other error only logged
safeUnlink(dir, names) == unlink(dir, names)

ReadFile(dir, name) == CHOOSE f \in dir : f.name = name

\* ------------------------------------------------------------------ intake
\* multer diskStorage filename(): <safeName>-<uniq><ext>
storageFilename(originalname, r, i) ==
  LET uniq == <<Numeral[r], "-", Numeral[i]>>
      ext == extname(originalname)
      safeName == replaceSpaces(basename(originalname, ext))
  IN  safeName \o <<"-">> \o uniq \o ext

\* variant of fileFilter: every name is let through
fileFilterAny(originalname) == TRUE

\* fileFilter: /\.(jpe?g|png)$/i tested on the original name
fileFilter(originalname) ==
  LET l == toLowerCase(originalname)
  IN  \/ endsWith(l, <<".", "j", "p", "g">>)
      \/ endsWith(l, <<".", "j", "p", "e", "g">>)
      \/ endsWith(l, <<".", "p", "n", "g">>)

NoResponse == [status |-> 0, error |-> "", files |-> << >>, zip |-> Str0]

ErrorResponse(status, msg) ==
  [status |-> status, error |-> msg, files |-> << >>, zip |-> Str0]

StoredNames(r) == {files[r][i].filename : i \in 1..Len(files[r])}


\* ------------------------------------------------------------ optimiseFile
SupportedExt(ext) ==
  ext \in {<<".", "p", "n", "g">>, <<".", "j", "p", "g">>, <<".", "j", "p", "e", "g">>}

\* optimiseFile lines 32-46: the plugin chosen for the lower-cased extension;
\* no plugin stands for `throw new Error('Unsupported file type')`
Plugins(ext) ==
  IF ext = <<".", "p", "n", "g">> THEN <<"pngquant">>
  ELSE IF ext = <<".", "j", "p", "g">> \/ ext = <<".", "j", "p", "e", "g">>
       THEN <<"mozjpeg">>
       ELSE << >>

\* optimiseFile line 50: `${path.basename(file.originalname, ext)}-opt${ext}`
\* with ext = path.extname(file.originalname).toLowerCase()
optimizedName(originalname) ==
  Only({basename(originalname, ext) \o <<"-", "o", "p", "t">> \o ext :
        ext \in {toLowerCase(extname(originalname))}})

\* the Codec Adapter is opaque: a deterministic length for a given input
CodecLen(len) == (len + 1) \div 2

\* the object optimiseFile returns for a file
Result(f, outDir) ==
  [filename |-> f.filename,
   originalName |-> f.originalname,
   optimizedPath |-> join(outDir, optimizedName(f.originalname)),
   sizeBefore |-> f.size,
   sizeAfter |-> CodecLen(f.size)]

\* an empty slot of Promise.all's values array
Hole ==
  [filename |-> Str0, originalName |-> Str0, optimizedPath |-> Str0,
   sizeBefore |-> -1, sizeAfter |-> -1]

\* ------------------------------------------------------------------ p-limit
\* run(): activeCount++ and the call of fn, which runs optimiseFile up to its
\* first await (fs.readFile)
PLimitRun(pl, i) ==
  [pl EXCEPT !.activeCount = @ + 1, !.ustate[i] = "read"]

\* variant of PLimitAdmit: the limit compared with <= (one unit too many)
RECURSIVE PLimitAdmitOffByOne(_, _)
PLimitAdmitOffByOne(pl, conc) ==
  IF pl.activeCount <= conc /\ Len(pl.queue) > 0
  THEN PLimitAdmitOffByOne(PLimitRun([pl EXCEPT !.queue = Tail(@)], Head(pl.queue)),
                           conc)
  ELSE pl

\* the microtasks queued by enqueue(): each starts the head of the queue if
\* activeCount < concurrency
RECURSIVE PLimitAdmit(_, _)
PLimitAdmit(pl, conc) ==
  IF pl.activeCount < conc /\ Len(pl.queue) > 0
  THEN PLimitAdmit(PLimitRun([pl EXCEPT !.queue = Tail(@)], Head(pl.queue)), conc)
  ELSE pl

\* variant of PLimitNext: the slot of a unit that failed is not released
PLimitNextKeepsFailed(pl) ==
  IF \E i \in 1..Len(pl.ustate) : pl.ustate[i] = "failed"
  THEN pl
  ELSE LET q == [pl EXCEPT !.activeCount = @ - 1]
       IN  IF Len(q.queue) > 0
           THEN PLimitRun([q EXCEPT !.queue = Tail(@)], Head(q.queue))
           ELSE q

\* variant of PLimitNext: the unit queued last is started
PLimitNextLifo(pl) ==
  LET q == [pl EXCEPT !.activeCount = @ - 1]
      n == Len(q.queue)
  IN  IF n > 0
      THEN PLimitRun([q EXCEPT !.queue = SubSeq(@, 1, n - 1)], q.queue[n])
      ELSE q

\* next(): activeCount--, then the head of the queue, if any, is started
PLimitNext(pl) ==
  LET q == [pl EXCEPT !.activeCount = @ - 1]
  IN  IF Len(q.queue) > 0
      THEN PLimitRun([q EXCEPT !.queue = Tail(@)], Head(q.queue))
      ELSE q

\* processFiles lines 73-74: every file is handed to limit(), in order
PLimitStart(n, conc) ==
  PLimitAdmit([activeCount |-> 0,
               queue |-> [i \in 1..n |-> i],
               ustate |-> [i \in 1..n |-> "queued"]], conc)

\* ------------------------------------------------------------- Promise.all
\* variant of PromiseAllStore: the value is pushed, in completion order
PromiseAllPush(vals, i, v) ==
  LET H == {k \in 1..Len(vals) : vals[k].sizeBefore = -1}
  IN  [vals EXCEPT ![CHOOSE k \in H : \A j \in H : k <= j] = v]

\* Promise.all stores the value of the i-th promise in slot i
PromiseAllStore(vals, i, v) == [vals EXCEPT ![i] = v]

PromiseAllFulfilled(vals) == \A i \in 1..Len(vals) : vals[i] # Hole

\* --------------------------------------------------------------- responses
zipName(r) ==
  <<"b", "u", "n", "d", "l", "e", "-", Numeral[r], ".", "z", "i", "p">>

\* variant of Payload: the sizes are taken from the results in reverse order
PayloadReversed(proc) ==
  [i \in 1..Len(proc) |->
     [originalName |-> proc[i].originalName,
      optimizedName |-> basename1(proc[i].optimizedPath),
      downloadUrl |-> <<"/", "download", "/">> \o basename1(proc[i].optimizedPath),
      uploadUrl |-> <<"/", "upload", "/">> \o basename1(proc[i].filename),
      sizeBefore |-> proc[Len(proc) + 1 - i].sizeBefore,
      sizeAfter |-> proc[Len(proc) + 1 - i].sizeAfter]]

\* server.js lines 250-260: one payload entry per element of processed
Payload(proc) ==
  [i \in 1..Len(proc) |->
     [originalName |-> proc[i].originalName,
      optimizedName |-> basename1(proc[i].optimizedPath),
      downloadUrl |-> <<"/", "download", "/">> \o basename1(proc[i].optimizedPath),
      uploadUrl |-> <<"/", "upload", "/">> \o basename1(proc[i].filename),
      sizeBefore |-> proc[i].sizeBefore,
      sizeAfter |-> proc[i].sizeAfter]]

OkResponse(proc, zip) ==
  [status |-> 200, error |-> "", files |-> Payload(proc), zip |-> zip]


\* ------------------------------------------------- the handler's continuations
\* variant of HandlerOnResolve: createZip is called for a single file too
HandlerOnResolveZipAny(r, proc) ==
  /\ processed' = [processed EXCEPT ![r] = proc]
  /\ IF Len(proc) > 0
     THEN /\ pc' = [pc EXCEPT ![r] = "zipopen"]
          /\ UNCHANGED response
     ELSE /\ pc' = [pc EXCEPT ![r] = "done"]
          /\ response' = [response EXCEPT ![r] = OkResponse(proc, Str0)]

\* server.js lines 240-262: processFiles resolved with proc
HandlerOnResolve(r, proc) ==
  /\ processed' = [processed EXCEPT ![r] = proc]
  /\ IF Len(proc) > 1
     THEN /\ pc' = [pc EXCEPT ![r] = "zipopen"]
          /\ UNCHANGED response
     ELSE /\ pc' = [pc EXCEPT ![r] = "done"]
          /\ response' = [response EXCEPT ![r] = OkResponse(proc, Str0)]

\* server.js lines 263-265: the catch block up to its await; the unlinks of
\* the staged originals are issued and complete in HandlerCleanup
HandlerOnReject(r) ==
  /\ pc' = [pc EXCEPT ![r] = "cleanup"]
  /\ UNCHANGED <<processed, response>>

\* processFiles settles: the awaiting caller continues in the same tick
OnResolve(r, proc) ==
  IF mode = "server"
  THEN HandlerOnResolve(r, proc)
  ELSE /\ pc' = [pc EXCEPT ![r] = "resolved"]
       /\ processed' = [processed EXCEPT ![r] = proc]
       /\ UNCHANGED response

\* variant of OnReject: a failed unit does not settle processFiles
OnRejectIgnored(r) == UNCHANGED <<pc, processed, response>>

OnReject(r) ==
  IF mode = "server"
  THEN HandlerOnReject(r)
  ELSE /\ pc' = [pc EXCEPT ![r] = "rejected"]
       /\ UNCHANGED <<processed, response>>

\* processFiles lines 72-76, the synchronous part and the microtasks that
\* follow it: the units are queued and the first `conc` of them started
ProcessFilesCall(r, fs, conc) ==
  LET pl == PLimitStart(Len(fs), conc)
      vals == [i \in 1..Len(fs) |-> Hole]
  IN  /\ concurrency' = [concurrency EXCEPT ![r] = conc]
      /\ activeCount' = [activeCount EXCEPT ![r] = pl.activeCount]
      /\ queue' = [queue EXCEPT ![r] = pl.queue]
      /\ ustate' = [ustate EXCEPT ![r] = pl.ustate]
      /\ values' = [values EXCEPT ![r] = vals]
      /\ finished' = [finished EXCEPT ![r] = << >>]
      /\ everRan' = [everRan EXCEPT ![r] = Len(fs) > 0]

\* a unit of work ends (optimiseFile returned or threw): p-limit's next()
\* runs, and Promise.all stores the value, or rejects on the first failure
UnitEnds(r, i, outcome) ==
  \E pl \in {PLimitNext([activeCount |-> activeCount[r],
                         queue |-> queue[r],
                         ustate |-> [ustate[r] EXCEPT ![i] = outcome]])},
     vals \in {IF outcome = "ok"
               THEN PromiseAllStore(values[r], i, Result(files[r][i], OPTIMIZED_DIR))
               ELSE values[r]},
     pending \in {pc[r] = "processing"} :
    /\ activeCount' = [activeCount EXCEPT ![r] = pl.activeCount]
    /\ queue' = [queue EXCEPT ![r] = pl.queue]
    /\ ustate' = [ustate EXCEPT ![r] = pl.ustate]
    /\ values' = [values EXCEPT ![r] = vals]
    /\ finished' = [finished EXCEPT ![r] = Append(@, i)]
    /\ IF pending /\ outcome = "failed" THEN OnReject(r)
       ELSE IF pending /\ PromiseAllFulfilled(vals) THEN OnResolve(r, vals)
       ELSE UNCHANGED <<pc, processed, response>>

Units(r) == 1..Len(ustate[r])

\* optimiseFile lines 30-46: fs.readFile completes; the extension is checked
\* and imagemin.buffer is called
ReadDone(r, i) ==
  /\ i \in Units(r)
  /\ ustate[r][i] = "read"
  /\ IF /\ exists(incoming, files[r][i].filename)
        /\ SupportedExt(toLowerCase(extname(files[r][i].originalname)))
     THEN /\ ustate' = [ustate EXCEPT ![r][i] = "codec"]
          /\ UNCHANGED <<pc, activeCount, queue, values, finished, processed, response>>
     ELSE UnitEnds(r, i, "failed")
  /\ UNCHANGED <<mode, janVars, batch, nextPart, files, concurrency, everRan, uploadErr,
                 incoming, outgoing, get>>

\* optimiseFile lines 48-52: imagemin.buffer completes, with the optimized
\* bytes (fs.writeFile is called) or with an error
CodecDone(r, i) ==
  /\ i \in Units(r)
  /\ ustate[r][i] = "codec"
  /\ \E ok \in BOOLEAN :
       IF ok
       THEN /\ ustate' = [ustate EXCEPT ![r][i] = "write"]
            /\ UNCHANGED <<pc, activeCount, queue, values, finished, processed, response>>
       ELSE UnitEnds(r, i, "failed")
  /\ UNCHANGED <<mode, janVars, batch, nextPart, files, concurrency, everRan, uploadErr,
                 incoming, outgoing, get>>

\* optimiseFile lines 52-60: fs.writeFile completes and the metadata is returned
WriteDone(r, i) ==
  /\ i \in Units(r)
  /\ ustate[r][i] = "write"
  /\ outgoing' = writeFile(outgoing,
                           [name |-> optimizedName(files[r][i].originalname),
                            src |-> files[r][i].filename,
                            len |-> CodecLen(files[r][i].size),
                            mtimeMs |-> clock,
                            entries |-> << >>])
  /\ UnitEnds(r, i, "ok")
  /\ UNCHANGED <<mode, janVars, batch, nextPart, files, concurrency, everRan, uploadErr,
                 incoming, get>>


\* ----------------------------------------------------------- POST /upload
pfVars == <<concurrency, activeCount, queue, ustate, values, finished, everRan>>

\* a client posts a multipart batch
Arrive(r, B) ==
  /\ pc[r] = "new"
  /\ \E b \in B : batch' = [batch EXCEPT ![r] = b]
  /\ pc' = [pc EXCEPT ![r] = "intake"]
  /\ UNCHANGED <<mode, janVars, nextPart, files, pfVars, processed, response, uploadErr,
                 incoming, outgoing, get>>

\* the multer file object of an accepted part
MulterFileObject(r, i, part, len) ==
  [originalname |-> part.originalname,
   filename |-> storageFilename(part.originalname, r, i),
   path |-> join(UPLOAD_DIR, storageFilename(part.originalname, r, i)),
   size |-> len]

\* variant of FilesLimitHit: no limit on the number of files
FilesLimitOff(i) == FALSE

\* limits.files and the maxCount of .array('images', MAX_FILES)
FilesLimitHit(i) == i > MAX_FILES

\* multer sees the next part of the batch (server.js lines 154-168): a part
\* beyond MAX_FILES, a name the fileFilter refuses, or a part longer than the
\* fileSize limit aborts the upload; any other part is staged in uploads
MulterFile(r) ==
  /\ pc[r] = "intake"
  /\ nextPart[r] <= Len(batch[r])
  /\ LET i == nextPart[r]
         part == batch[r][i]
     IN  IF FilesLimitHit(i)
         THEN /\ uploadErr' = [uploadErr EXCEPT ![r] = "Too many files"]
              /\ pc' = [pc EXCEPT ![r] = "aborting"]
              /\ UNCHANGED <<files, incoming, nextPart>>
         ELSE IF ~fileFilter(part.originalname)
         THEN /\ uploadErr' = [uploadErr EXCEPT ![r] =
                                 "Only .jpg, .jpeg and .png files are allowed"]
              /\ pc' = [pc EXCEPT ![r] = "aborting"]
              /\ UNCHANGED <<files, incoming, nextPart>>
         ELSE IF part.size > MAX_TOTAL_SIZE
         THEN LET f == MulterFileObject(r, i, part, MAX_TOTAL_SIZE)
              IN  /\ uploadErr' = [uploadErr EXCEPT ![r] = "File too large"]
                  /\ pc' = [pc EXCEPT ![r] = "aborting"]
                  /\ files' = [files EXCEPT ![r] = Append(@, f)]
                  /\ incoming' = writeFile(incoming, [name |-> f.filename, len |-> f.size,
                                                            mtimeMs |-> clock])
                  /\ UNCHANGED nextPart
         ELSE LET f == MulterFileObject(r, i, part, part.size)
              IN  /\ files' = [files EXCEPT ![r] = Append(@, f)]
                  /\ incoming' = writeFile(incoming, [name |-> f.filename, len |-> f.size,
                                                            mtimeMs |-> clock])
                  /\ nextPart' = [nextPart EXCEPT ![r] = i + 1]
                  /\ UNCHANGED <<pc, uploadErr>>
  /\ UNCHANGED <<mode, janVars, batch, pfVars, processed, response, outgoing, get>>

\* multer has removed the files it stored and calls back with the error;
\* server.js lines 219-222 answer 400
MulterAbortDone(r) ==
  /\ pc[r] = "aborting"
  /\ incoming' = unlink(incoming, StoredNames(r))
  /\ response' = [response EXCEPT ![r] = ErrorResponse(400, uploadErr[r])]
  /\ pc' = [pc EXCEPT ![r] = "done"]
  /\ UNCHANGED <<mode, janVars, batch, nextPart, files, pfVars, processed, uploadErr,
                 outgoing, get>>

\* variant of SumSizes: the accumulator is dropped, the last size is kept
SumSizesLast(fs) == IF Len(fs) = 0 THEN 0 ELSE fs[Len(fs)].size

\* server.js line 225: req.files.reduce((acc, f) => acc + f.size, 0)
RECURSIVE SumSizes(_)
SumSizes(fs) == IF Len(fs) = 0 THEN 0 ELSE Head(fs).size + SumSizes(Tail(fs))

\* multer calls back without error (server.js lines 224-238): the total size
\* is checked, then processFiles is called
UploadAccepted(r) ==
  /\ pc[r] = "intake"
  /\ nextPart[r] > Len(batch[r])
  /\ IF SumSizes(files[r]) > MAX_TOTAL_SIZE
     THEN /\ pc' = [pc EXCEPT ![r] = "rejecting"]
          /\ UNCHANGED <<pfVars, processed, response>>
     ELSE /\ ProcessFilesCall(r, files[r], HandlerConcurrency)
          /\ IF Len(files[r]) = 0
             THEN HandlerOnResolve(r, << >>)
             ELSE /\ pc' = [pc EXCEPT ![r] = "processing"]
                  /\ UNCHANGED <<processed, response>>
  /\ UNCHANGED <<mode, janVars, batch, nextPart, files, uploadErr, incoming, outgoing, get>>

\* server.js lines 227-230: the staged files are unlinked, then 400 is sent
RejectDone(r) ==
  /\ pc[r] = "rejecting"
  /\ incoming' = safeUnlink(incoming, StoredNames(r))
  /\ response' = [response EXCEPT ![r] =
                    ErrorResponse(400, "Total upload size exceeds 100 MiB")]
  /\ pc' = [pc EXCEPT ![r] = "done"]
  /\ UNCHANGED <<mode, janVars, batch, nextPart, files, pfVars, processed, uploadErr,
                 outgoing, get>>

\* variant of HandlerCleanup: the optimized outputs of the batch are unlinked
\* as well
HandlerCleanupOutputs(r) ==
  /\ pc[r] = "cleanup"
  /\ incoming' = safeUnlink(incoming, StoredNames(r))
  /\ outgoing' = safeUnlink(outgoing,
                            {optimizedName(files[r][i].originalname) :
                               i \in 1..Len(files[r])})
  /\ response' = [response EXCEPT ![r] =
                    ErrorResponse(500, "Failed to process images")]
  /\ pc' = [pc EXCEPT ![r] = "done"]
  /\ UNCHANGED <<mode, janVars, batch, nextPart, files, pfVars, processed,
                 uploadErr, get>>

\* server.js lines 265-266: the unlinks of the catch block complete, then
\* 500 is sent
HandlerCleanup(r) ==
  /\ pc[r] = "cleanup"
  /\ incoming' = safeUnlink(incoming, StoredNames(r))
  /\ response' = [response EXCEPT ![r] =
                    ErrorResponse(500, "Failed to process images")]
  /\ pc' = [pc EXCEPT ![r] = "done"]
  /\ UNCHANGED <<mode, janVars, batch, nextPart, files, pfVars, processed, uploadErr,
                 outgoing, get>>

\* ---------------------------------------------------------------- createZip
\* createZip line 88: fs.open(zipPath, 'w') creates the empty archive file
ZipOpenDone(r) ==
  /\ pc[r] = "zipopen"
  /\ outgoing' = writeFile(outgoing,
                           [name |-> zipName(r), src |-> Str0, len |-> 0,
                            mtimeMs |-> clock,
                            entries |-> << >>])
  /\ pc' = [pc EXCEPT ![r] = "archiving"]
  /\ UNCHANGED <<mode, janVars, batch, nextPart, files, pfVars, processed, response,
                 uploadErr, incoming, get>>

\* the entry archiver appends for a file path: its base name and the bytes
\* the file holds when it is read
ZipEntry(fp) ==
  LET f == ReadFile(outgoing, basename1(fp))
  IN  [name |-> basename1(fp), src |-> f.src, len |-> f.len]

\* createZip lines 94-102: the archive is finalized and the stream closed
\* (the name is returned and the response sent), or archiver reports an error
ArchiveDone(r) ==
  /\ pc[r] = "archiving"
  /\ \E ok \in BOOLEAN :
       IF ok /\ \A i \in 1..Len(processed[r]) :
                   exists(outgoing, basename1(processed[r][i].optimizedPath))
       THEN /\ outgoing' = writeFile(outgoing,
                             [name |-> zipName(r), src |-> Str0,
                              len |-> Len(processed[r]),
                              mtimeMs |-> clock,
                              entries |-> [i \in 1..Len(processed[r]) |->
                                             ZipEntry(processed[r][i].optimizedPath)]])
            /\ response' = [response EXCEPT ![r] =
                              OkResponse(processed[r],
                                         <<"/", "download", "/">> \o zipName(r))]
            /\ pc' = [pc EXCEPT ![r] = "done"]
            /\ UNCHANGED processed
       ELSE /\ HandlerOnReject(r)
            /\ UNCHANGED outgoing
  /\ UNCHANGED <<mode, janVars, batch, nextPart, files, pfVars, uploadErr, incoming, get>>


\* -------------------------------------------------------------- read routes
\* what exists on the disk besides the content of the two directories
OtherPaths ==
  { <<"/">>, DirName, UPLOAD_DIR, OPTIMIZED_DIR,
    <<"/", "e">>, <<"/", "e", "/", "p">>, <<"/", "s", "/", "k">>,
    <<"/", "s", "/", "o", "k">>, <<"/", "s", "/", "u", "k">> }

\* fs.access(filePath) succeeds
accessible(filePath) ==
  \/ filePath \in OtherPaths
  \/ dirname(filePath) = UPLOAD_DIR /\ exists(incoming, basename1(filePath))
  \/ dirname(filePath) = OPTIMIZED_DIR /\ exists(outgoing, basename1(filePath))

NoGet == [route |-> "", name |-> Str0, path |-> Str0, status |-> 0]

\* variant of ReadRoute: the requested name is joined as it is
ReadRouteNoBasename(route, dir, name) ==
  LET filePath == join(dir, name)
  IN  IF ~startsWith(filePath, dir)
      THEN [route |-> route, name |-> name, path |-> Str0, status |-> 400]
      ELSE IF accessible(filePath)
      THEN [route |-> route, name |-> name, path |-> filePath, status |-> 200]
      ELSE [route |-> route, name |-> name, path |-> filePath, status |-> 404]

\* variant of ReadRoute: a path that fails the prefix check is answered 404
ReadRouteHidden(route, dir, name) ==
  LET safeName == basename1(name)
      filePath == join(dir, safeName)
  IN  IF ~startsWith(filePath, dir)
      THEN [route |-> route, name |-> name, path |-> Str0, status |-> 404]
      ELSE IF accessible(filePath)
      THEN [route |-> route, name |-> name, path |-> filePath, status |-> 200]
      ELSE [route |-> route, name |-> name, path |-> filePath, status |-> 404]

\* server.js lines 274-290 and 295-311: the two routes differ in the
\* directory only.  status 200 stands for res.download of filePath.
ReadRoute(route, dir, name) ==
  LET safeName == basename1(name)
      filePath == join(dir, safeName)
  IN  IF ~startsWith(filePath, dir)
      THEN [route |-> route, name |-> name, path |-> Str0, status |-> 400]
      ELSE IF accessible(filePath)
      THEN [route |-> route, name |-> name, path |-> filePath, status |-> 200]
      ELSE [route |-> route, name |-> name, path |-> filePath, status |-> 404]

\* the names a client requests (req.params.filename, URL-decoded, not empty)
RequestNames ==
  { <<"a">>, <<"p">>, <<"k">>, <<".">>, <<".", ".">>, <<"/">>, <<"a", "/">>,
    <<".", ".", "/", "k">>,
    <<".", ".", "/", ".", ".", "/", "e", "/", "p">>,
    <<"/", "e", "/", "p">>,
    <<".", ".", "/", "u", "/", "a">>,
    <<".", ".", "/", "o", "k">>,
    <<"a", "/", ".", ".">> }

GetDownload(name) ==
  /\ get' = ReadRoute("download", OPTIMIZED_DIR, name)
  /\ UNCHANGED <<mode, janVars, reqVars, incoming, outgoing>>

GetUpload(name) ==
  /\ get' = ReadRoute("upload", UPLOAD_DIR, name)
  /\ UNCHANGED <<mode, janVars, reqVars, incoming, outgoing>>

\* -------------------------------------------------------------- cleanup job
CLEANUP_AFTER_MS == 5 * 60 * 1000

Folders == {UPLOAD_DIR, OPTIMIZED_DIR}

\* the content of a folder
Dir(folder) == IF folder = UPLOAD_DIR THEN incoming ELSE outgoing

SetDir(folder, content) ==
  IF folder = UPLOAD_DIR
  THEN incoming' = content /\ UNCHANGED outgoing
  ELSE outgoing' = content /\ UNCHANGED incoming

\* what fs.stat tells of a file, as far as the cleanup job reads it
Stats(f) == [name |-> f.name, mtimeMs |-> f.mtimeMs]

\* the sub-directories of the two folders: entries that are not files
SubDirs == {<<"k">>}

\* fs.readdir(folder, {withFileTypes: true}): the entries, in any order
Dirents(folder) ==
  LET E == {[name |-> f.name, isFile |-> TRUE] : f \in Dir(folder)} \cup
           {[name |-> n, isFile |-> FALSE] : n \in SubDirs}
  IN  {s \in [1..Cardinality(E) -> E] :
         \A i, j \in 1..Cardinality(E) : i # j => s[i] # s[j]}

\* `if (!entry.isFile()) continue`: the entries are skipped up to the first
\* regular file
RECURSIVE SkipToFile(_)
SkipToFile(ents) ==
  IF Len(ents) > 0 /\ ~Head(ents).isFile THEN SkipToFile(Tail(ents)) ELSE ents

\* cleanFolder line 329: now - stats.mtimeMs > CLEANUP_AFTER_MS
Expired(sweepNow, mtimeMs) == sweepNow - mtimeMs > CLEANUP_AFTER_MS

\* logger.warn(text ... path ...)
Warning(text, path) == [text |-> text, path |-> path]

\* the for loop of cleanFolder goes on with the entries ents up to its next
\* await (fs.stat of the next regular file), or ends
LoopOn(folder, ents) ==
  LET rest == SkipToFile(ents)
  IN  /\ dirents' = [dirents EXCEPT ![folder] = rest]
      /\ cleanPc' = [cleanPc EXCEPT ![folder] = IF rest = << >> THEN "done" ELSE "stat"]

\* variant of CleanupError: the error leaves cleanFolder and ends the sweep
\* of both folders
CleanupErrorPropagated(folder, path) ==
  /\ UNCHANGED logged
  /\ cleanPc' = [d \in Folders |-> "done"]
  /\ dirents' = [d \in Folders |-> << >>]

\* cleanFolder lines 335-337: the catch around the whole loop logs a warning
\* (e.message names the path of the call that failed) and cleanFolder returns
CleanupError(folder, path) ==
  /\ logged' = [logged EXCEPT ![folder] = @ \cup {Warning("Cleanup error", path)}]
  /\ cleanPc' = [cleanPc EXCEPT ![folder] = "done"]
  /\ dirents' = [dirents EXCEPT ![folder] = << >>]

\* the files a request in flight owns: it may write or remove them while the
\* sweep runs; every other file is at rest
VolatileNames == {<<"a">>}

AtRest(dir) == {f \in dir : f.name \notin VolatileNames}

\* the cron callback starts (server.js lines 321-322 and 340): now is read
\* and cleanFolder is called for both folders, each up to its fs.readdir.
\* One sweep is followed, from its start to its end.
SweepStart ==
  /\ \A d \in Folders : cleanPc[d] = "idle"
  /\ now' = clock
  /\ cleanPc' = [d \in Folders |-> "readdir"]
  /\ atStart' = [d \in Folders |-> {Stats(f) : f \in AtRest(Dir(d))}]
  /\ UNCHANGED <<mode, reqVars, incoming, outgoing, get, clock, dirents, logged>>

\* cleanFolder line 325: fs.readdir completes, with the entries or an error
ReaddirDone(folder) ==
  /\ cleanPc[folder] = "readdir"
  /\ \E ok \in BOOLEAN :
       IF ok
       THEN \E ents \in Dirents(folder) :
              /\ LoopOn(folder, ents)
              /\ UNCHANGED logged
       ELSE CleanupError(folder, folder)
  /\ UNCHANGED <<mode, reqVars, incoming, outgoing, get, clock, now, atStart>>

\* cleanFolder lines 328-329: fs.stat of the entry completes.  It fails when
\* the file is gone (ENOENT) or on an I/O error; an expired file is unlinked
StatDone(folder) ==
  /\ cleanPc[folder] = "stat"
  /\ LET entry == Head(dirents[folder])
         filePath == join(folder, entry.name)
     IN  \E ok \in BOOLEAN :
           IF ok /\ exists(Dir(folder), entry.name)
           THEN LET stats == Stats(ReadFile(Dir(folder), entry.name))
                IN  /\ IF Expired(now, stats.mtimeMs)
                       THEN /\ cleanPc' = [cleanPc EXCEPT ![folder] = "unlink"]
                            /\ UNCHANGED dirents
                       ELSE LoopOn(folder, Tail(dirents[folder]))
                    /\ UNCHANGED logged
           ELSE CleanupError(folder, filePath)
  /\ UNCHANGED <<mode, reqVars, incoming, outgoing, get, clock, now, atStart>>

\* cleanFolder lines 330-331: safeUnlink of the entry completes (ENOENT is
\* ignored, any other error is logged by safeUnlink) and the loop goes on
UnlinkDone(folder) ==
  /\ cleanPc[folder] = "unlink"
  /\ LET entry == Head(dirents[folder])
         filePath == join(folder, entry.name)
     IN  \E ok \in BOOLEAN :
           /\ IF ok \/ ~exists(Dir(folder), entry.name)
              THEN /\ SetDir(folder, safeUnlink(Dir(folder), {entry.name}))
                   /\ UNCHANGED logged
              ELSE /\ UNCHANGED <<incoming, outgoing>>
                   /\ logged' = [logged EXCEPT ![folder] =
                                   @ \cup {Warning("Failed to delete", filePath)}]
           /\ LoopOn(folder, Tail(dirents[folder]))
  /\ UNCHANGED <<mode, reqVars, get, clock, now, atStart>>

\* a sweep is running: cleanFolder has not returned for both folders
Sweeping == \E d \in Folders : cleanPc[d] \notin {"idle", "done"}

\* the file names of the two folders when the cleanup job is followed
JanNames == {<<"a">>, <<"p">>}

\* the file a request writes: a staged upload (multer) or an optimized
\* output (optimiseFile line 52)
WrittenFile(folder, name) ==
  IF folder = UPLOAD_DIR
  THEN [name |-> name, len |-> SmallSize, mtimeMs |-> clock]
  ELSE [name |-> name, src |-> Str0, len |-> SmallSize, entries |-> << >>,
        mtimeMs |-> clock]

\* a request writes a file of its own while the sweep runs
OtherWrite(folder, name) ==
  /\ Sweeping
  /\ SetDir(folder, writeFile(Dir(folder), WrittenFile(folder, name)))
  /\ UNCHANGED <<mode, reqVars, get, janVars>>

\* a request removes a file of its own (multer's abort, safeUnlink in the
\* handler) while the sweep runs
OtherUnlink(folder, name) ==
  /\ Sweeping
  /\ exists(Dir(folder), name)
  /\ SetDir(folder, unlink(Dir(folder), {name}))
  /\ UNCHANGED <<mode, reqVars, get, janVars>>

JanitorIdle ==
  /\ clock = 0
  /\ now = 0
  /\ cleanPc = [d \in Folders |-> "idle"]
  /\ dirents = [d \in Folders |-> << >>]
  /\ logged = [d \in Folders |-> {}]
  /\ atStart = [d \in Folders |-> {}]

\* ----------------------------------------------------------- specifications
InitReqs ==
  /\ pc = [r \in Reqs |-> "new"]
  /\ batch = [r \in Reqs |-> << >>]
  /\ nextPart = [r \in Reqs |-> 1]
  /\ files = [r \in Reqs |-> << >>]
  /\ concurrency = [r \in Reqs |-> 0]
  /\ activeCount = [r \in Reqs |-> 0]
  /\ queue = [r \in Reqs |-> << >>]
  /\ ustate = [r \in Reqs |-> << >>]
  /\ values = [r \in Reqs |-> << >>]
  /\ finished = [r \in Reqs |-> << >>]
  /\ processed = [r \in Reqs |-> << >>]
  /\ response = [r \in Reqs |-> NoResponse]
  /\ everRan = [r \in Reqs |-> FALSE]
  /\ uploadErr = [r \in Reqs |-> ""]

\* the server after start-up: both directories empty, no request yet
Init ==
  /\ mode = "server"
  /\ InitReqs
  /\ incoming = {}
  /\ outgoing = {}
  /\ get = NoGet
  /\ JanitorIdle

\* the steps of one upload request, whatever batch it carries
RequestStep(r) ==
  \/ MulterFile(r)
  \/ MulterAbortDone(r)
  \/ UploadAccepted(r)
  \/ RejectDone(r)
  \/ \E i \in Units(r) : ReadDone(r, i)
  \/ \E i \in Units(r) : CodecDone(r, i)
  \/ \E i \in Units(r) : WriteDone(r, i)
  \/ ZipOpenDone(r)
  \/ ArchiveDone(r)
  \/ HandlerCleanup(r)

Next ==
  \E r \in Single :
    \/ Arrive(r, Batches)
    \/ RequestStep(r)

Spec == Init /\ [][Next]_vars

\* the read routes, on any content of the two directories
DirNames == {<<"a">>, <<"p">>, <<"k">>}

InitRead ==
  /\ mode = "read"
  /\ InitReqs
  /\ \E S \in SUBSET DirNames : incoming = {[name |-> n, len |-> SmallSize, mtimeMs |-> 0] : n \in S}
  /\ \E S \in SUBSET DirNames :
       outgoing = {[name |-> n, src |-> Str0, len |-> SmallSize, entries |-> << >>,
                   mtimeMs |-> 0] : n \in S}
  /\ get = NoGet
  /\ JanitorIdle

NextRead ==
  \E name \in RequestNames :
    \/ GetDownload(name)
    \/ GetUpload(name)

SpecRead == InitRead /\ [][NextRead]_vars


\* processFiles called directly: the files are staged, the limit is given
\* explicitly or left to its default
PFPool ==
  <<[originalname |-> N_a_png, size |-> 10],
    [originalname |-> N_b_jpg, size |-> 20],
    [originalname |-> N_a_PNG, size |-> 30],
    [originalname |-> N_a_png, size |-> 40],
    [originalname |-> N_b_jpg, size |-> 50],
    [originalname |-> N_a_PNG, size |-> 60]>>

PFFiles(r, n) == [i \in 1..n |-> MulterFileObject(r, i, PFPool[i], PFPool[i].size)]

\* processFiles line 72: `concurrency = 6` when the option is left out (0 here)
ProcessFilesConcurrency(opt) == IF opt = 0 THEN DefaultConcurrency ELSE opt

InitPF ==
  /\ mode = "direct"
  /\ get = NoGet
  /\ JanitorIdle
  /\ outgoing = {}
  /\ batch = [r \in Reqs |-> << >>]
  /\ nextPart = [r \in Reqs |-> 1]
  /\ processed = [r \in Reqs |-> << >>]
  /\ response = [r \in Reqs |-> NoResponse]
  /\ uploadErr = [r \in Reqs |-> ""]
  /\ \E n \in 0..MaxPF, opt \in 0..MaxConc :
       LET fs == PFFiles(1, n)
           pl == PLimitStart(n, ProcessFilesConcurrency(opt))
       IN  /\ files = [r \in Reqs |-> IF r = 1 THEN fs ELSE << >>]
           /\ incoming = {[name |-> fs[i].filename, len |-> fs[i].size, mtimeMs |-> 0] :
                          i \in 1..n}
           /\ concurrency = [r \in Reqs |-> IF r = 1 THEN ProcessFilesConcurrency(opt) ELSE 0]
           /\ activeCount = [r \in Reqs |-> IF r = 1 THEN pl.activeCount ELSE 0]
           /\ queue = [r \in Reqs |-> IF r = 1 THEN pl.queue ELSE << >>]
           /\ ustate = [r \in Reqs |-> IF r = 1 THEN pl.ustate ELSE << >>]
           /\ values = [r \in Reqs |-> IF r = 1 THEN [i \in 1..n |-> Hole] ELSE << >>]
           /\ finished = [r \in Reqs |-> << >>]
           /\ everRan = [r \in Reqs |-> r = 1 /\ n > 0]
           /\ pc = [r \in Reqs |-> IF r = 1
                                   THEN IF n = 0 THEN "resolved" ELSE "processing"
                                   ELSE "new"]

NextPF ==
  \E r \in Single :
    \/ \E i \in Units(r) : ReadDone(r, i)
    \/ \E i \in Units(r) : CodecDone(r, i)
    \/ \E i \in Units(r) : WriteDone(r, i)

SpecPF == InitPF /\ [][NextPF]_vars

\* an admitted unit completes: while an await of optimiseFile (fs.readFile,
\* imagemin.buffer, fs.writeFile) is pending in some unit, one of the
\* pending awaits eventually completes
UnitsComplete == WF_vars(NextPF)

SpecPFFair == InitPF /\ [][NextPF]_vars /\ UnitsComplete

\* two upload requests at the same time, both past their intake: the first
\* carries four files, the second three, so that both together have more
\* units than the limit of 6.  Each request is followed from the size check
\* and the call of processFiles (server.js lines 224-238) to the moment
\* processFiles settles.
CapBatch(r) ==
  [i \in 1..(IF r = 1 THEN 4 ELSE 3) |-> [originalname |-> N_a_png, size |-> SmallSize]]

CapFiles(r) ==
  [i \in 1..Len(CapBatch(r)) |->
     MulterFileObject(r, i, CapBatch(r)[i], CapBatch(r)[i].size)]

InitTwo ==
  /\ mode = "direct"
  /\ get = NoGet
  /\ JanitorIdle
  /\ outgoing = {}
  /\ batch = [r \in Reqs |-> CapBatch(r)]
  /\ nextPart = [r \in Reqs |-> Len(CapBatch(r)) + 1]
  /\ processed = [r \in Reqs |-> << >>]
  /\ response = [r \in Reqs |-> NoResponse]
  /\ uploadErr = [r \in Reqs |-> ""]
  /\ files = [r \in Reqs |-> CapFiles(r)]
  /\ incoming = UNION {{[name |-> CapFiles(r)[i].filename, len |-> CapFiles(r)[i].size,
                         mtimeMs |-> 0] : i \in 1..Len(CapFiles(r))} : r \in Reqs}
  /\ concurrency = [r \in Reqs |-> 0]
  /\ activeCount = [r \in Reqs |-> 0]
  /\ queue = [r \in Reqs |-> << >>]
  /\ ustate = [r \in Reqs |-> << >>]
  /\ values = [r \in Reqs |-> << >>]
  /\ finished = [r \in Reqs |-> << >>]
  /\ everRan = [r \in Reqs |-> FALSE]
  /\ pc = [r \in Reqs |-> "intake"]

NextTwo ==
  \E r \in Reqs :
    \/ UploadAccepted(r)
    \/ \E i \in Units(r) : ReadDone(r, i)
    \/ \E i \in Units(r) : CodecDone(r, i)
    \/ \E i \in Units(r) : WriteDone(r, i)

SpecTwo == InitTwo /\ [][NextTwo]_vars

\* the cleanup job, while requests write and remove files and time passes;
\* fs.readdir, fs.stat and fs.unlink may fail with an I/O error
\* the last-modified times of the files the sweep finds: one millisecond
\* more than the window ago, and exactly the window ago
OldTimes == {0, 1}

\* a folder that holds the files `names`, last modified at times mt[name]
FolderWith(folder, names, mt) ==
  IF folder = UPLOAD_DIR
  THEN {[name |-> n, len |-> SmallSize, mtimeMs |-> mt[n]] : n \in names}
  ELSE {[name |-> n, src |-> Str0, len |-> SmallSize, entries |-> << >>,
         mtimeMs |-> mt[n]] : n \in names}

InitJanitor ==
  /\ mode = "janitor"
  /\ InitReqs
  /\ get = NoGet
  /\ clock = CLEANUP_AFTER_MS + 1
  /\ now = 0
  /\ \E S \in SUBSET JanNames, mt \in [JanNames -> OldTimes] :
       incoming = FolderWith(UPLOAD_DIR, S, mt)
  /\ \E S \in SUBSET JanNames, mt \in [JanNames -> OldTimes] :
       outgoing = FolderWith(OPTIMIZED_DIR, S, mt)
  /\ cleanPc = [d \in Folders |-> "idle"]
  /\ dirents = [d \in Folders |-> << >>]
  /\ logged = [d \in Folders |-> {}]
  /\ atStart = [d \in Folders |-> {}]

NextJanitor ==
  \/ SweepStart
  \/ \E d \in Folders : ReaddirDone(d)
  \/ \E d \in Folders : StatDone(d)
  \/ \E d \in Folders : UnlinkDone(d)
  \/ \E d \in Folders, n \in VolatileNames : OtherWrite(d, n)
  \/ \E d \in Folders, n \in VolatileNames : OtherUnlink(d, n)

SpecJanitor == InitJanitor /\ [][NextJanitor]_vars


\* an upload request and the cleanup job on the same two directories.  The
\* request carries two files, which multer staged at the instant StagedAt;
\* the optimized directory may hold the output an earlier batch wrote, more
\* than the retention window ago, for a file of the same name.  The request
\* is followed from the call of processFiles to its response, one sweep from
\* its start to its end, and the time passes.
StagedAt == CLEANUP_AFTER_MS + 1

\* the instants the clock shows: the staging, and the first instant at which
\* the staged files are older than the window
Instants == <<StagedAt, StagedAt + CLEANUP_AFTER_MS + 1>>

SharedBatch ==
  <<[originalname |-> N_a_png, size |-> SmallSize],
    [originalname |-> N_b_jpg, size |-> OtherSize]>>

SharedFiles(r) ==
  [i \in 1..Len(SharedBatch) |->
     MulterFileObject(r, i, SharedBatch[i], SharedBatch[i].size)]

\* the output of an earlier batch for a file named as the first of this one
EarlierOutput ==
  [name |-> optimizedName(SharedBatch[1].originalname), src |-> Str0,
   len |-> CodecLen(SmallSize), entries |-> << >>, mtimeMs |-> 0]

\* time passes
Tick ==
  /\ \E k \in 1..(Len(Instants) - 1) :
       /\ clock = Instants[k]
       /\ clock' = Instants[k + 1]
  /\ UNCHANGED <<mode, reqVars, incoming, outgoing, get, now, cleanPc, dirents,
                 logged, atStart>>

InitShared ==
  /\ mode = "server"
  /\ get = NoGet
  /\ clock = StagedAt
  /\ now = 0
  /\ cleanPc = [d \in Folders |-> "idle"]
  /\ dirents = [d \in Folders |-> << >>]
  /\ logged = [d \in Folders |-> {}]
  /\ atStart = [d \in Folders |-> {}]
  /\ batch = [r \in Reqs |-> IF r \in Single THEN SharedBatch ELSE << >>]
  /\ nextPart = [r \in Reqs |-> IF r \in Single THEN Len(SharedBatch) + 1 ELSE 1]
  /\ files = [r \in Reqs |-> IF r \in Single THEN SharedFiles(r) ELSE << >>]
  /\ incoming = UNION {{[name |-> SharedFiles(r)[i].filename,
                         len |-> SharedFiles(r)[i].size,
                         mtimeMs |-> StagedAt] : i \in 1..Len(SharedBatch)} :
                       r \in Single}
  /\ outgoing \in {{}, {EarlierOutput}}
  /\ concurrency = [r \in Reqs |-> 0]
  /\ activeCount = [r \in Reqs |-> 0]
  /\ queue = [r \in Reqs |-> << >>]
  /\ ustate = [r \in Reqs |-> << >>]
  /\ values = [r \in Reqs |-> << >>]
  /\ finished = [r \in Reqs |-> << >>]
  /\ processed = [r \in Reqs |-> << >>]
  /\ response = [r \in Reqs |-> NoResponse]
  /\ everRan = [r \in Reqs |-> FALSE]
  /\ uploadErr = [r \in Reqs |-> ""]
  /\ pc = [r \in Reqs |-> IF r \in Single THEN "intake" ELSE "new"]

NextShared ==
  \/ \E r \in Single :
       \/ UploadAccepted(r)
       \/ \E i \in Units(r) : ReadDone(r, i)
       \/ \E i \in Units(r) : CodecDone(r, i)
       \/ \E i \in Units(r) : WriteDone(r, i)
       \/ ZipOpenDone(r)
       \/ ArchiveDone(r)
       \/ HandlerCleanup(r)
  \/ Tick
  \/ SweepStart
  \/ \E d \in Folders : ReaddirDone(d)
  \/ \E d \in Folders : StatDone(d)
  \/ \E d \in Folders : UnlinkDone(d)

SpecShared == InitShared /\ [][NextShared]_vars


\* ==================================================================== claims
Done(r) == pc[r] = "done"

\* the units of a processFiles call that were admitted and have not ended
Active(r) == {i \in Units(r) : ustate[r][i] \in {"read", "codec", "write"}}

Failed(r) == {i \in Units(r) : ustate[r][i] = "failed"}

Succeeded(r) == {i \in Units(r) : ustate[r][i] = "ok"}

\* the aggregate size of the parts of a batch
RECURSIVE AggregateSize(_)
AggregateSize(b) == IF Len(b) = 0 THEN 0 ELSE Head(b).size + AggregateSize(Tail(b))

\* the files of request r's batch that are in the uploads directory
StagedOf(r) ==
  {f \in incoming :
     \E i \in 1..Len(batch[r]) :
       f.name = storageFilename(batch[r][i].originalname, r, i)}

\* a name that ends, in any letter case, with one of the supported extensions
AllowedName(name) ==
  \E e \in {<<".", "j", "p", "g">>, <<".", "j", "p", "e", "g">>,
            <<".", "p", "n", "g">>} :
    /\ Len(name) >= Len(e)
    /\ toLowerCase(SubSeq(name, Len(name) - Len(e) + 1, Len(name))) = e

Rejected(r) ==
  /\ response[r].status = 400
  /\ response[r].files = << >>
  /\ StagedOf(r) = {}

\* C1: during a processFiles call with limit N, the number of units admitted
\* and not yet ended (with success or failure) never exceeds N.
C1_ConcurrencyBound ==
  \A r \in Reqs : Cardinality(Active(r)) <= concurrency[r]

\* a unit succeeded, another failed, the limit is reached and a unit waits
C1_Witness ==
  \E r \in Reqs :
    /\ Len(queue[r]) > 0
    /\ Cardinality(Active(r)) = concurrency[r]
    /\ Failed(r) # {}
    /\ Succeeded(r) # {}

\* C2: when processFiles resolves, the i-th element of the array is the result
\* of the i-th file, whatever the order in which the units ended.
C2_ResultOrder ==
  \A r \in Reqs :
    pc[r] = "resolved" =>
      /\ Len(processed[r]) = Len(files[r])
      /\ \A i \in 1..Len(files[r]) :
           /\ processed[r][i].filename = files[r][i].filename
           /\ processed[r][i].originalName = files[r][i].originalname
           /\ processed[r][i].sizeBefore = files[r][i].size

\* resolved, and the units did not end in submission order
C2_Witness ==
  \E r \in Reqs :
    /\ pc[r] = "resolved"
    /\ Len(files[r]) >= 2
    /\ finished[r] # [i \in 1..Len(files[r]) |-> i]

\* C3: a batch whose aggregate size exceeds 100 MiB never has a unit started,
\* and once its request is answered the answer is a rejection and none of
\* its staged files is left in the uploads directory.
C3_OversizeRejected ==
  \A r \in Reqs :
    AggregateSize(batch[r]) > MAX_TOTAL_SIZE =>
      /\ ~everRan[r]
      /\ Done(r) => Rejected(r)

\* two files, each within the limit, were staged and the total was refused
C3_Witness ==
  \E r \in Reqs :
    /\ Done(r)
    /\ response[r].error = "Total upload size exceeds 100 MiB"
    /\ Len(files[r]) >= 2
    /\ Rejected(r)

\* C4: a batch of more than 20 files never has a unit started, and once its
\* request is answered the answer is a rejection and no file of the batch is
\* left in the uploads directory.
C4_TooManyRejected ==
  \A r \in Reqs :
    Len(batch[r]) > MAX_FILES =>
      /\ ~everRan[r]
      /\ Done(r) => Rejected(r)

\* 21 valid files were sent, 20 were staged, and the request was refused
C4_Witness ==
  \E r \in Reqs :
    /\ Done(r)
    /\ Len(batch[r]) = MAX_FILES + 1
    /\ Len(files[r]) = MAX_FILES
    /\ Rejected(r)

\* C5: a batch with a file whose extension is not .jpg, .jpeg or .png (in any
\* letter case) never has a unit started, and once its request is answered
\* the answer is a rejection and no file of the batch is left staged.
C5_AllOrNothing ==
  \A r \in Reqs :
    (\E i \in 1..Len(batch[r]) : ~AllowedName(batch[r][i].originalname)) =>
      /\ ~everRan[r]
      /\ Done(r) => Rejected(r)

\* a valid file was staged before the invalid one was seen
C5_Witness ==
  \E r \in Reqs :
    /\ Done(r)
    /\ Len(batch[r]) <= MAX_FILES
    /\ \E i \in 1..Len(batch[r]) : ~AllowedName(batch[r][i].originalname)
    /\ Len(files[r]) >= 1
    /\ Rejected(r)

\* C6: once a unit of an accepted batch has failed, the request is in its
\* failure handler; the response it sends is the 500 failure, without file
\* metadata, and when it is sent no staged original of the batch is left.
C6_FailureResponse ==
  \A r \in Reqs :
    Failed(r) # {} =>
      /\ pc[r] \in {"cleanup", "done"}
      /\ response[r].status # 0 =>
           /\ response[r].status = 500
           /\ response[r].files = << >>
           /\ response[r].zip = Str0
           /\ StagedOf(r) = {}

\* one file failed, a sibling succeeded, and the 500 was sent
C6_Witness ==
  \E r \in Reqs :
    /\ response[r].status = 500
    /\ Failed(r) # {}
    /\ Succeeded(r) # {}
    /\ Len(files[r]) >= 2
    /\ StagedOf(r) = {}

\* C7: after an upload request has ended in a processing failure (a unit of
\* the batch failed and 500 was sent), no optimized file produced for that
\* batch exists in the optimized directory.
C7_NoArtifactsAfterFailure ==
  \A r \in Reqs :
    (response[r].status = 500 /\ Failed(r) # {}) =>
      \A f \in outgoing : f.src \notin StoredNames(r)


AllEnded(r) == \A i \in Units(r) : ustate[r][i] \in {"ok", "failed"}

\* C8 as stated: a failure of one file is a failure for that file only; the
\* siblings run to completion and their results are delivered to the caller.
C8_SiblingsDelivered ==
  \A r \in Reqs :
    (AllEnded(r) /\ Failed(r) # {}) =>
      \A i \in Succeeded(r) :
        \E k \in 1..Len(processed[r]) :
          processed[r][k].filename = files[r][i].filename

\* C8 as amended: processFiles rejects as a whole as soon as one unit fails
\* and delivers no result; the failure cancels no sibling: a unit that waits
\* still has running units in front of it, whose end admits it.
C8_RejectsWholeSiblingsRun ==
  \A r \in Reqs :
    Failed(r) # {} =>
      /\ pc[r] = "rejected"
      /\ processed[r] = << >>
      /\ Len(queue[r]) > 0 => Cardinality(Active(r)) = concurrency[r]

\* a sibling ended successfully after the unit whose failure rejected the call
C8_Witness ==
  \E r \in Reqs :
    /\ pc[r] = "rejected"
    /\ \E j, k \in 1..Len(finished[r]) :
         /\ j < k
         /\ ustate[r][finished[r][j]] = "failed"
         /\ ustate[r][finished[r][k]] = "ok"

DirOf(route) == IF route = "download" THEN OPTIMIZED_DIR ELSE UPLOAD_DIR

\* C9 as stated: every read request is rejected or accesses a direct entry of
\* its directory.
C9_DirectEntryOnly ==
  get.route # "" =>
    \/ get.status = 400 /\ get.path = Str0
    \/ dirname(get.path) = DirOf(get.route)

\* C9 as amended: every read request is rejected (nothing is accessed) or
\* accesses the directory itself or a direct entry of it; no request accesses
\* a path outside the directory or a parent of it.
C9_Confined ==
  get.route # "" =>
    \/ get.status = 400 /\ get.path = Str0
    \/ get.path = DirOf(get.route)
    \/ dirname(get.path) = DirOf(get.route)

\* ../../e/p was requested and the entry p of the directory was looked up
C9_Witness ==
  /\ get.name = <<".", ".", "/", ".", ".", "/", "e", "/", "p">>
  /\ get.status = 404
  /\ get.path = join(DirOf(get.route), <<"p">>)

\* the requested name, joined as it is, leaves the directory
ResolvesOutside(route, name) == ~startsWith(join(DirOf(route), name), DirOf(route))

\* C10 as stated: a request whose name resolves outside its directory is
\* answered as a request for a missing file is, with 404.
C10_TraversalIsNotFound ==
  (get.route # "" /\ ResolvesOutside(get.route, get.name)) => get.status = 404

\* C10 as amended: a request whose base name fails the prefix check (the base
\* name "..") is answered 400, not 404; any other name that resolves outside
\* is answered as its base name is: 404 when the directory has no such entry,
\* the entry otherwise.
C10_TraversalAnswer ==
  (get.route # "" /\ ResolvesOutside(get.route, get.name)) =>
    IF basename1(get.name) = <<".", ".">>
    THEN get.status = 400 /\ get.path = Str0
    ELSE /\ get.path = join(DirOf(get.route), basename1(get.name))
         /\ dirname(get.path) = DirOf(get.route)
         /\ get.status = IF accessible(get.path) THEN 200 ELSE 404

\* .. was requested and answered 400, nothing being accessed
C10_Witness ==
  /\ get.name = <<".", ".">>
  /\ get.status = 400

\* ------------------------------------------------------------ cleanup job
SweepDone == \A d \in Folders : cleanPc[d] = "done"

\* the sweep logged a failure of its own call on this file
OwnFailure(d, name) == \E w \in logged[d] : w.path = join(d, name)

\* the age of a file at the time of the sweep
Age(f) == now - f.mtimeMs

\* the sweep of folder d has treated the file f it found at its start as
\* the retention rule says: removed if older than the window, kept as it is
\* otherwise
Retained(d, f) ==
  IF Age(f) > CLEANUP_AFTER_MS
  THEN ~exists(Dir(d), f.name)
  ELSE \E g \in Dir(d) : Stats(g) = f

\* C11: once a sweep has finished, every file at rest that a folder held at
\* the start of the sweep is absent if its age exceeded the 5-minute window
\* and still present otherwise, whatever happened to the other entries of
\* the folder during the sweep (the folder could be read, and the sweep's
\* own stat and unlink of the file did not fail).
C11_Retention ==
  SweepDone =>
    \A d \in Folders :
      Warning("Cleanup error", d) \notin logged[d] =>
        \A f \in atStart[d] : ~OwnFailure(d, f.name) => Retained(d, f)

\* C12: the sweep of a folder depends on its own errors only.  Whatever
\* error the sweep of the other folder met, a cleanFolder that has returned
\* without logging a cleanup error of its own has gone through all its
\* entries: every file at rest it held is removed or kept as the retention
\* rule says (unless the unlink of that file failed, which is logged).  An
\* error ends the sweep of its folder with a warning in the log.
C12_SweepsIndependent ==
  \A d \in Folders :
    (cleanPc[d] = "done" /\ \A w \in logged[d] : w.text # "Cleanup error") =>
      \A f \in atStart[d] : ~OwnFailure(d, f.name) => Retained(d, f)

\* the sweep of one folder ended with an error, on its readdir or on the
\* stat of an entry, and the sweep of the other went on and removed an
\* expired file
C12_Witness ==
  \E d, e \in Folders :
    /\ d # e
    /\ SweepDone
    /\ \E w \in logged[d] : w.text = "Cleanup error"
    /\ logged[e] = {}
    /\ \E f \in atStart[e] :
         /\ Age(f) > CLEANUP_AFTER_MS
         /\ ~exists(Dir(e), f.name)

\* ------------------------------------------------------------------ archive
\* createZip was called for the batch of request r: it is at one of its
\* awaits, or the archive file it opened is in the optimized directory
ZipCalled(r) ==
  \/ pc[r] \in {"zipopen", "archiving"}
  \/ exists(outgoing, zipName(r))

ZipUrl(r) == <<"/", "download", "/">> \o zipName(r)

\* C13: createZip is called only for an accepted batch of more than one
\* file all of whose files were optimized, and it is called for every such
\* batch; a success response carries a zip URL exactly when the batch has
\* more than one file, and the URL is that of the archive of the batch.
C13_ZipIffSeveral ==
  \A r \in Reqs :
    /\ ZipCalled(r) =>
         /\ Len(files[r]) > 1
         /\ Succeeded(r) = Units(r)
         /\ Len(processed[r]) = Len(files[r])
    /\ (Len(files[r]) > 1 /\ Succeeded(r) = 1..Len(files[r])) =>
         \/ ZipCalled(r)
         \/ pc[r] \in {"cleanup", "done"} /\ response[r].status # 200
    /\ response[r].status = 200 =>
         /\ response[r].zip # Str0 <=> Len(files[r]) > 1
         /\ response[r].zip # Str0 =>
              /\ response[r].zip = ZipUrl(r)
              /\ exists(outgoing, zipName(r))

\* a batch of two files was answered with the URL of its archive
C13_Witness ==
  \E r \in Reqs :
    /\ response[r].status = 200
    /\ Len(files[r]) = 2
    /\ response[r].zip = ZipUrl(r)
    /\ exists(outgoing, zipName(r))

\* the archive createZip built for request r
ZipFile(r) == ReadFile(outgoing, zipName(r))

\* C14: the archive createZip built from the N optimized outputs of a batch
\* has exactly N entries; the i-th is named as the base name of the i-th
\* optimized file and has the size reported as sizeAfter of the i-th file,
\* two files of the batch having the same original name or not.
C14_ArchiveRoundTrip ==
  \A r \in Reqs :
    (response[r].status = 200 /\ response[r].zip # Str0) =>
      /\ Len(ZipFile(r).entries) = Len(processed[r])
      /\ \A i \in 1..Len(processed[r]) :
           /\ ZipFile(r).entries[i].name = basename1(processed[r][i].optimizedPath)
           /\ ZipFile(r).entries[i].len = processed[r][i].sizeAfter

\* C15: the archive file of a batch is in the optimized directory only once
\* createZip has finalized it: it is not there while createZip is at work,
\* and it is not there after createZip failed.
C15_NoPartialArchive ==
  \A r \in Reqs :
    exists(outgoing, zipName(r)) =>
      /\ pc[r] # "archiving"
      /\ pc[r] \in {"cleanup", "done"} => response[r].zip = ZipUrl(r)

\* createZip failed for the batch of request r, all of whose files had been
\* optimized
BundlingFailed(r) ==
  /\ Len(processed[r]) > 1
  /\ pc[r] \in {"cleanup", "done"}
  /\ response[r].zip = Str0

\* the optimized file of the i-th result is in the optimized directory as a
\* unit of the batch wrote it, and GET /download serves it
OutputIntact(r, i) ==
  LET name == basename1(processed[r][i].optimizedPath)
  IN  /\ \E f \in outgoing : \E j \in 1..Len(processed[r]) :
           /\ f.name = name
           /\ processed[r][j].optimizedPath = processed[r][i].optimizedPath
           /\ f.src = processed[r][j].filename
           /\ f.len = processed[r][j].sizeAfter
      /\ ReadRoute("download", OPTIMIZED_DIR, name).status = 200

\* C16: when createZip fails after every file of the batch was optimized,
\* the request is answered as a processing failure (500, no file list) and
\* every optimized file of the batch is still in the optimized directory, as
\* it was written, and can be downloaded: the failure handler removes none.
C16_OutputsKeptOnZipFailure ==
  \A r \in Reqs :
    BundlingFailed(r) =>
      /\ response[r].status \in {0, 500}
      /\ Done(r) =>
           /\ response[r] = ErrorResponse(500, "Failed to process images")
           /\ StagedOf(r) = {}
      /\ \A i \in 1..Len(processed[r]) : OutputIntact(r, i)

\* both files of a batch were optimized, createZip failed, 500 was sent and
\* the two outputs are in the optimized directory
C16_Witness ==
  \E r \in Reqs :
    /\ BundlingFailed(r)
    /\ response[r].status = 500
    /\ Len(processed[r]) = 2
    /\ processed[r][1].optimizedPath # processed[r][2].optimizedPath
    /\ \A i \in 1..2 : OutputIntact(r, i)

\* ----------------------------------------------------------------- response
\* the optimized bytes the unit of the i-th file of request r wrote: their
\* length is what the codec returned for that file
CompressedLen(r, i) == CodecLen(files[r][i].size)

\* C17: a success response lists exactly one entry per accepted file, in the
\* order of the files; the i-th entry carries the name of the i-th file, its
\* size as sizeBefore and the size of its own compressed bytes as sizeAfter;
\* no file of the batch failed, and no response but a success lists files.
C17_ResponseEntries ==
  \A r \in Reqs :
    /\ response[r].status = 200 =>
         /\ Len(response[r].files) = Len(files[r])
         /\ Failed(r) = {}
         /\ Succeeded(r) = 1..Len(files[r])
         /\ \A i \in 1..Len(files[r]) :
              /\ response[r].files[i].originalName = files[r][i].originalname
              /\ response[r].files[i].uploadUrl =
                   <<"/", "upload", "/">> \o files[r][i].filename
              /\ response[r].files[i].sizeBefore = files[r][i].size
              /\ response[r].files[i].sizeAfter = CompressedLen(r, i)
    /\ response[r].status # 200 => response[r].files = << >>

\* a success response for two files of different sizes whose units ended in
\* the reverse of the submission order
C17_Witness ==
  \E r \in Reqs :
    /\ response[r].status = 200
    /\ Len(files[r]) = 2
    /\ files[r][1].size # files[r][2].size
    /\ finished[r] = <<2, 1>>

\* -------------------------------------------------------------- the limiter
\* the units of all requests that were admitted and have not ended
AllActive == UNION {{<<r, i>> : i \in Active(r)} : r \in Reqs}

\* C18: whatever upload requests are processed at the same time, the units
\* active across all of them are never more than the limit of 6.
C18_GlobalCap == Cardinality(AllActive) <= HandlerConcurrency

Queued(r) == {i \in Units(r) : ustate[r][i] = "queued"}

\* the units admitted are the first ones submitted, and the queue holds the
\* others in submission order
AdmittedInOrder ==
  \A r \in Reqs :
    /\ \A i, j \in Units(r) : (i < j /\ j \notin Queued(r)) => i \notin Queued(r)
    /\ {queue[r][k] : k \in 1..Len(queue[r])} = Queued(r)
    /\ \A k, l \in 1..Len(queue[r]) : k < l => queue[r][k] < queue[r][l]

\* a step that admits a queued unit is the end of a running unit of the
\* same call, and admits that unit only
AdmittedOnCompletion ==
  \A r \in Reqs :
    \A j \in Queued(r) :
      ustate'[r][j] # "queued" =>
        /\ ustate'[r][j] = "read"
        /\ \E i \in Active(r) : ustate'[r][i] \in {"ok", "failed"}
        /\ \A k \in Queued(r) : k # j => ustate'[r][k] = "queued"

\* C19: within one processFiles call the units are admitted in submission
\* order (when unit j has started, every unit i < j has been admitted), and
\* a queued unit is admitted only in the step in which a running unit ends.
C19_FifoAdmission == []AdmittedInOrder /\ [][AdmittedOnCompletion]_vars

\* a unit beyond the first N was admitted after a unit failed, another has
\* ended well, and units still wait
C19_Witness ==
  \E r \in Reqs :
    /\ Len(queue[r]) > 0
    /\ Failed(r) # {}
    /\ Succeeded(r) # {}
    /\ \E j \in Active(r) : j > concurrency[r]

Settled(r) == pc[r] \in {"resolved", "rejected"}

\* C20: provided every admitted unit eventually completes, with success or
\* failure, every unit that waits in the queue is eventually admitted, every
\* unit eventually ends, and the processFiles call eventually settles.
C20_NoStarvation ==
  <>[](\A r \in Single : Queued(r) = {} /\ AllEnded(r) /\ Settled(r))

\* more files than the limit: every unit has ended, one of them with a
\* failure that was not the last end, and the call has settled
C20_Witness ==
  \E r \in Reqs :
    /\ Len(files[r]) > concurrency[r]
    /\ concurrency[r] > 0
    /\ AllEnded(r)
    /\ Settled(r)
    /\ \E k \in 1..(Len(finished[r]) - 1) : ustate[r][finished[r][k]] = "failed"

\* ------------------------------------------------------------ derived names
\* the extension of an original name is one of the supported ones, in any
\* letter case
HasSupportedExt(name) == SupportedExt(toLowerCase(extname(name)))

\* the base name of an original name without its extension
Stem(name) ==
  SubSeq(basename1(name), 1, Len(basename1(name)) - Len(extname(name)))

\* <original-basename-without-ext>-opt<ext>, the extension appended being
\* the original one or its lower-case form
DerivedNames(name) ==
  {Stem(name) \o <<"-", "o", "p", "t">> \o e :
     e \in {extname(name), toLowerCase(extname(name))}}

\* the codec path the extension of a name calls for
PathFor(name) ==
  IF toLowerCase(extname(name)) = <<".", "p", "n", "g">>
  THEN <<"pngquant">>
  ELSE <<"mozjpeg">>

\* C22: for every accepted file whose original name has the extension .png,
\* .jpg or .jpeg in any letter case, optimiseFile takes the PNG path for .png
\* and the JPEG path for .jpg and .jpeg, and a unit that has ended well has
\* written its output under <original-basename-without-ext>-opt<ext>: the
\* original extension is not part of the name before "-opt".
C22_DerivedName ==
  \A r \in Reqs :
    \A i \in Units(r) :
      HasSupportedExt(files[r][i].originalname) =>
        /\ Plugins(toLowerCase(extname(files[r][i].originalname)))
             = PathFor(files[r][i].originalname)
        /\ ustate[r][i] = "ok" =>
             /\ basename1(values[r][i].optimizedPath)
                  \in DerivedNames(files[r][i].originalname)
             /\ exists(outgoing, basename1(values[r][i].optimizedPath))

\* --------------------------------------------------------- after the response
\* C23: once the response of an upload request has been sent, no unit of its
\* batch is running or waiting in the queue: nothing of the batch reads the
\* uploads directory or writes to the optimized directory afterwards.
C23_QuietAfterResponse ==
  \A r \in Reqs :
    response[r].status # 0 => (Active(r) = {} /\ Queued(r) = {})

\* ---------------------------------------------------------- output locations
\* what GET <url> answers for a downloadUrl of a response: the name after
\* "/download/" goes through the read route
Served(url) == ReadRoute("download", OPTIMIZED_DIR, SubSeq(url, 4, Len(url)))

\* C24: after a success response, the file served at the downloadUrl of each
\* entry is the output the unit of that entry wrote (it was compressed from
\* the staged file of the entry) and has exactly sizeAfter bytes: no other
\* unit has written to the same location.
C24_DistinctOutputs ==
  \A r \in Reqs :
    response[r].status = 200 =>
      \A i \in 1..Len(response[r].files) :
        /\ Served(response[r].files[i].downloadUrl).status = 200
        /\ \E f \in outgoing :
             /\ f.name = basename1(Served(response[r].files[i].downloadUrl).path)
             /\ f.src = files[r][i].filename
             /\ f.len = response[r].files[i].sizeAfter

\* ------------------------------------------------- the janitor and a request
\* the response of request r is sent in this step
Responds(r) == response[r].status = 0 /\ response'[r].status # 0

\* nothing of the batch of request r is missing: every staged file is in the
\* uploads directory, the output of every unit that has ended well is in the
\* optimized directory, and so is the archive createZip has opened
Untouched(r) ==
  /\ \A i \in 1..Len(files[r]) : exists(incoming, files[r][i].filename)
  /\ \A i \in Succeeded(r) : \E f \in outgoing : f.src = files[r][i].filename
  /\ pc[r] = "archiving" => exists(outgoing, zipName(r))

\* C21: when the response of a batch is sent within the retention window,
\* measured from the staging of its files, no sweep has deleted a staged or
\* an optimized file of the batch while it was in flight: up to the step that
\* sends the response, nothing of the batch is missing.
C21_NoSweepInFlight ==
  [][\A r \in Reqs :
       (Responds(r) /\ clock - StagedAt <= CLEANUP_AFTER_MS) => Untouched(r)]_vars

====
